---- MODULE Spec2Model ----
(***************************************************************************)
(* Model of the anime-update bot (src/main.js).                            *)
(*                                                                         *)
(* The process registers schedule() with node-cron ('*/15 * * * *',        *)
(* runOnInit: true).  Every invocation of schedule() is one cycle:         *)
(*   fetchAnimeData -> checkAnimeUpdates -> sendAnimeUpdates ->            *)
(*   saveAnimeData.                                                        *)
(* Every `await` of the code is a point where another invocation of        *)
(* schedule(), a signal (SIGINT/SIGTERM) or a change of the web page can   *)
(* interleave, so each awaited step is one action.                         *)
(*                                                                         *)
(* An Anime object is abstracted to two of its string fields, content      *)
(* (standing for title/link/content/image, all derived from the same       *)
(* episode) and time.                                                      *)
(***************************************************************************)
EXTENDS Integers, Sequences, FiniteSets, TLC

\* ---------------------------------------------------------------- bounds
MaxItems == 4       \* episodes the web page publishes during a run
MaxCycles == 2      \* invocations of schedule() that can be in progress
MaxChannel == 3     \* messages the channel holds before sends are refused
MaxKills == 1       \* terminations of the process by a signal
MaxContent == 2     \* contents of the items of the detection inputs
MaxLen == 3         \* length of the fetched list of the detection inputs
MaxPrev == 2        \* length of the snapshot of the detection inputs

VARIABLES
  source,      \* the web page: Anime list, newest first
  file,        \* ./data.json : [kind: "absent" | "corrupt" | "json", text]
  running,     \* the node process is alive
  pc,          \* per invocation of schedule(): the await it is suspended at
  trigger,     \* per invocation: "init" (runOnInit) or "cron" (a tick)
  data,        \* per invocation: local `data` of schedule()
  updates,     \* per invocation: local `updates` of schedule()
  fetched,     \* history: the list fetchAnimeData returned to the invocation
  prev,        \* history: what checkAnimeUpdates read, [ok, items]
  sent,        \* history: items this invocation sent successfully, in order
  channel,     \* the Telegram channel: items delivered, in delivery order
  kills,       \* history: terminations of the process so far
  deliveredBefore, \* history: items delivered before the latest termination
  ev           \* history: the step taken last

vars == <<source, file, running, pc, trigger, data, updates, fetched, prev,
          sent, channel, kills, deliveredBefore, ev>>

Slots == 1..MaxCycles

\* ------------------------------------------------------------ Anime items
\* The n-th episode the web page publishes (larger n = newer).
Episode(n) == [content |-> n, time |-> "21:00"]

\* JSON.stringify(object): the text of one item, its fields in their fixed
\* order.
stringify(object) == <<object.content, object.time>>

\* JSON.parse of the text of one item.
parse(text) == [content |-> text[1], time |-> text[2]]

\* hash(object): SHA-256 of the serialization, taken as collision-free.
hash(object) == stringify(object)

Range(s) == {s[i] : i \in 1..Len(s)}

Front(s) == SubSeq(s, 1, Len(s) - 1)

Last(s) == s[Len(s)]

\* ------------------------------------------------------------ the file
NoFile == [kind |-> "absent", text |-> <<>>]

\* fs.writeFile opens with O_TRUNC: the file is empty until the data is written.
Truncated == [kind |-> "corrupt", text |-> <<>>]

\* JSON.stringify(data) of a list: the texts of its items, in order.
stringifyList(items) == [i \in 1..Len(items) |-> stringify(items[i])]

\* JSON.parse of the text of a list.
JSONparse(text) == [i \in 1..Len(text) |-> parse(text[i])]

\* A snapshot written with the items in the opposite order.
Json_reversed(items) ==
  [kind |-> "json",
   text |-> [i \in 1..Len(items) |-> stringify(items[Len(items) + 1 - i])]]

\* The file after fs.writeFile(dataPath, JSON.stringify(data)).
Json(items) == [kind |-> "json", text |-> stringifyList(items)]

\* isFileExist(path)
isFileExist(f) == f.kind # "absent"

\* JSON.parse(await fs.readFile(dataPath)) succeeds
Readable(f, readOk) == isFileExist(f) /\ f.kind = "json" /\ readOk

NoPrev == [ok |-> FALSE, items |-> <<>>]

\* prevData of checkAnimeUpdates: the list parsed from ./data.json, or none
\* when the file is absent or the read or the parse throws.
readPrevData(f, readOk) ==
  IF Readable(f, readOk)
  THEN [ok |-> TRUE, items |-> JSONparse(f.text)]
  ELSE NoPrev

\* ------------------------------------------------------ checkAnimeUpdates
\* The for loop of checkAnimeUpdates: push until the first known hash.
RECURSIVE detectLoop(_, _)
detectLoop(d, prevDataHashList) ==
  IF d = <<>> THEN <<>>
  ELSE IF hash(Head(d)) \notin prevDataHashList
       THEN <<Head(d)>> \o detectLoop(Tail(d), prevDataHashList)
       ELSE <<>>

\* The loop of checkAnimeUpdates with the break after the push: the first
\* known item is returned too.
RECURSIVE detectLoop_inclusive(_, _)
detectLoop_inclusive(d, prevDataHashList) ==
  IF d = <<>> THEN <<>>
  ELSE IF hash(Head(d)) \notin prevDataHashList
       THEN <<Head(d)>> \o detectLoop_inclusive(Tail(d), prevDataHashList)
       ELSE <<Head(d)>>

checkAnimeUpdates_inclusive(d, f, readOk) ==
  IF Readable(f, readOk)
  THEN detectLoop_inclusive(d, {hash(p) : p \in Range(readPrevData(f, readOk).items)})
  ELSE <<>>

checkAnimeUpdates_noBreak(d, f, readOk) ==
  IF Readable(f, readOk)
  THEN SelectSeq(d, LAMBDA x : hash(x) \notin {hash(p) : p \in Range(readPrevData(f, readOk).items)})
  ELSE <<>>

checkAnimeUpdates_allNew(d, f, readOk) ==
  IF Readable(f, readOk)
  THEN detectLoop(d, {hash(p) : p \in Range(readPrevData(f, readOk).items)})
  ELSE d

checkAnimeUpdates(d, f, readOk) ==
  IF Readable(f, readOk)
  THEN detectLoop(d, {hash(p) : p \in Range(readPrevData(f, readOk).items)})
  ELSE <<>>

\* -------------------------------------------------------- saveAnimeData
\* data.splice(findIndex(hash equal), 1): remove the first item with that hash.
RECURSIVE removeFirst(_, _)
removeFirst(d, h) ==
  IF d = <<>> THEN <<>>
  ELSE IF hash(Head(d)) = h THEN Tail(d)
       ELSE <<Head(d)>> \o removeFirst(Tail(d), h)

\* saveAnimeData losing the newest item of the list it persists.
removeUnsent_dropNewest(d, unsentUpdates) ==
  IF d = <<>> THEN d ELSE Tail(d)

\* unsentUpdates.forEach(...)
RECURSIVE removeUnsent(_, _)
removeUnsent(d, unsentUpdates) ==
  IF unsentUpdates = <<>> THEN d
  ELSE removeUnsent(removeFirst(d, hash(Head(unsentUpdates))), Tail(unsentUpdates))

\* ------------------------------------------------------------ the steps

NoEv == [op |-> "none", c |-> 0, end |-> FALSE, trigger |-> "none",
         fetched |-> <<>>, prev |-> NoPrev, sent |-> <<>>, unsent |-> <<>>]

Idle(c) == pc[c] = "idle"

Busy == {c \in Slots : ~Idle(c)}

\* The locals of an invocation of schedule() that has returned.
Clear(c) ==
  /\ pc' = [pc EXCEPT ![c] = "idle"]
  /\ trigger' = [trigger EXCEPT ![c] = "none"]
  /\ data' = [data EXCEPT ![c] = <<>>]
  /\ updates' = [updates EXCEPT ![c] = <<>>]
  /\ fetched' = [fetched EXCEPT ![c] = <<>>]
  /\ prev' = [prev EXCEPT ![c] = NoPrev]
  /\ sent' = [sent EXCEPT ![c] = <<>>]

\* What the invocation did, recorded at the step that ends it.
Summary(c, op, unsentNow) ==
  [op |-> op, c |-> c, end |-> TRUE, trigger |-> trigger[c],
   fetched |-> fetched[c], prev |-> prev[c], sent |-> sent[c],
   unsent |-> unsentNow]

Init ==
  /\ source = <<Episode(1)>>
  /\ file = NoFile
  /\ running = TRUE
  /\ pc = [c \in Slots |-> IF c = 1 THEN "fetch" ELSE "idle"]
  /\ trigger = [c \in Slots |-> IF c = 1 THEN "init" ELSE "none"]
  /\ data = [c \in Slots |-> <<>>]
  /\ updates = [c \in Slots |-> <<>>]
  /\ fetched = [c \in Slots |-> <<>>]
  /\ prev = [c \in Slots |-> NoPrev]
  /\ sent = [c \in Slots |-> <<>>]
  /\ channel = <<>>
  /\ kills = 0
  /\ deliveredBefore = {}
  /\ ev = NoEv

\* The web page lists a new episode in front of the others.
Publish ==
  /\ Len(source) < MaxItems
  /\ source' = <<Episode(Len(source) + 1)>> \o source
  /\ ev' = NoEv
  /\ UNCHANGED <<file, running, pc, trigger, data, updates, fetched, prev,
                 sent, channel>>
  /\ UNCHANGED <<kills, deliveredBefore>>

\* A tick of cron.schedule('*/15 * * * *', schedule): node-cron calls
\* schedule() whether or not an earlier invocation is still in progress.
CronTick ==
  /\ running
  /\ \E c \in Slots :
       /\ Idle(c)
       /\ \A b \in Slots : b < c => ~Idle(b)
       /\ pc' = [pc EXCEPT ![c] = "fetch"]
       /\ trigger' = [trigger EXCEPT ![c] = "cron"]
  /\ ev' = NoEv
  /\ UNCHANGED <<source, file, running, data, updates, fetched, prev, sent,
                 channel>>
  /\ UNCHANGED <<kills, deliveredBefore>>

\* fetchAnimeData: the 30 s wait, then the page (ok) or, on any error, [].
fetchAnimeData(c, ok) ==
  /\ running
  /\ pc[c] = "fetch"
  /\ data' = [data EXCEPT ![c] = IF ok THEN source ELSE <<>>]
  /\ fetched' = [fetched EXCEPT ![c] = data'[c]]
  /\ pc' = [pc EXCEPT ![c] = "check"]
  /\ ev' = NoEv
  /\ UNCHANGED <<source, file, running, trigger, updates, prev, sent, channel>>
  /\ UNCHANGED <<kills, deliveredBefore>>

\* checkAnimeUpdates(data), then the entry of sendAnimeUpdates: the while
\* loop is left at once when there is no update.  readOk: fs.readFile and
\* JSON.parse do not throw.
Check(c, readOk) ==
  /\ running
  /\ pc[c] = "check"
  /\ updates' = [updates EXCEPT ![c] = checkAnimeUpdates(data[c], file, readOk)]
  /\ prev' = [prev EXCEPT ![c] = readPrevData(file, readOk)]
  /\ pc' = [pc EXCEPT ![c] = IF updates'[c] = <<>> THEN "save" ELSE "send"]
  /\ ev' = NoEv
  /\ UNCHANGED <<source, file, running, trigger, data, fetched, sent, channel>>
  /\ UNCHANGED <<kills, deliveredBefore>>

\* The send loop taking the items from the front of the list (shift instead
\* of pop): newest first.
SendOk_newestFirst(c) ==
  /\ running
  /\ pc[c] = "send"
  /\ Len(channel) < MaxChannel
  /\ channel' = Append(channel, Head(updates[c]))
  /\ sent' = [sent EXCEPT ![c] = Append(sent[c], Head(updates[c]))]
  /\ updates' = [updates EXCEPT ![c] = Tail(updates[c])]
  /\ pc' = [pc EXCEPT ![c] = IF updates'[c] = <<>> THEN "save" ELSE "send"]
  /\ ev' = [NoEv EXCEPT !.op = "sendOk", !.c = c, !.trigger = trigger[c],
                        !.prev = prev[c], !.sent = <<Head(updates[c])>>]
  /\ UNCHANGED <<source, file, running, trigger, data, fetched, prev>>
  /\ UNCHANGED <<kills, deliveredBefore>>

\* One turn of the while loop of sendAnimeUpdates: pop, sendMessage resolves.
SendOk(c) ==
  /\ running
  /\ pc[c] = "send"
  /\ Len(channel) < MaxChannel
  /\ channel' = Append(channel, Last(updates[c]))
  /\ sent' = [sent EXCEPT ![c] = Append(sent[c], Last(updates[c]))]
  /\ updates' = [updates EXCEPT ![c] = Front(updates[c])]
  /\ pc' = [pc EXCEPT ![c] = IF updates'[c] = <<>> THEN "save" ELSE "send"]
  /\ ev' = [NoEv EXCEPT !.op = "sendOk", !.c = c, !.trigger = trigger[c],
                        !.prev = prev[c], !.sent = <<Last(updates[c])>>]
  /\ UNCHANGED <<source, file, running, trigger, data, fetched, prev>>
  /\ UNCHANGED <<kills, deliveredBefore>>

\* sendAnimeUpdates logging the rejection and returning the unsent items, so
\* that schedule() goes on to saveAnimeData with them.
SendFail_returns(c) ==
  /\ running
  /\ pc[c] = "send"
  /\ pc' = [pc EXCEPT ![c] = "save"]
  /\ ev' = NoEv
  /\ UNCHANGED <<source, file, running, trigger, data, updates, fetched, prev,
                 sent, channel>>
  /\ UNCHANGED <<kills, deliveredBefore>>

\* A rejected sendMessage that nothing catches: the unhandled rejection ends
\* the process.
SendFail_uncaught(c) ==
  /\ running
  /\ pc[c] = "send"
  /\ running' = FALSE
  /\ Clear(c)
  /\ ev' = Summary(c, "sendFail", updates[c])
  /\ UNCHANGED <<source, file, channel>>
  /\ UNCHANGED <<kills, deliveredBefore>>

\* One turn of the while loop: pop, sendMessage rejects; the catch pushes the
\* item back and throws, and the catch of schedule() ends the invocation.
SendFail(c) ==
  /\ running
  /\ pc[c] = "send"
  /\ Clear(c)
  /\ ev' = Summary(c, "sendFail", Append(Front(updates[c]), Last(updates[c])))
  /\ UNCHANGED <<source, file, running, channel>>
  /\ UNCHANGED <<kills, deliveredBefore>>

\* saveAnimeData without the test data.length > 0: the list is written even
\* when it is empty.
saveAnimeData_alwaysWrites(c, openOk) ==
  /\ running
  /\ pc[c] = "save"
  /\ IF openOk
     THEN /\ data' = [data EXCEPT ![c] = removeUnsent(data[c], updates[c])]
          /\ pc' = [pc EXCEPT ![c] = "write"]
          /\ file' = Truncated
          /\ ev' = NoEv
          /\ UNCHANGED <<trigger, updates, fetched, prev, sent>>
     ELSE /\ Clear(c)
          /\ ev' = Summary(c, "writeError", updates[c])
          /\ UNCHANGED file
  /\ UNCHANGED <<source, running, channel>>
  /\ UNCHANGED <<kills, deliveredBefore>>

\* saveAnimeData(data, unsentUpdates) up to the call of fs.writeFile, which
\* opens ./data.json for writing (emptying it) or rejects at the open.
saveAnimeData(c, openOk) ==
  /\ running
  /\ pc[c] = "save"
  /\ LET toPersist == removeUnsent(data[c], updates[c]) IN
       IF Len(toPersist) > 0
       THEN IF openOk
            THEN /\ data' = [data EXCEPT ![c] = toPersist]
                 /\ pc' = [pc EXCEPT ![c] = "write"]
                 /\ file' = Truncated
                 /\ ev' = NoEv
                 /\ UNCHANGED <<trigger, updates, fetched, prev, sent>>
            ELSE /\ Clear(c)
                 /\ ev' = Summary(c, "writeError", updates[c])
                 /\ UNCHANGED file
       ELSE /\ Clear(c)
            /\ ev' = Summary(c, "skip", updates[c])
            /\ UNCHANGED file
  /\ UNCHANGED <<source, running, channel>>
  /\ UNCHANGED <<kills, deliveredBefore>>

\* fs.writeFile has written JSON.stringify(data); schedule() returns.
WriteDone(c) ==
  /\ running
  /\ pc[c] = "write"
  /\ file' = Json(data[c])
  /\ Clear(c)
  /\ ev' = Summary(c, "written", updates[c])
  /\ UNCHANGED <<source, running, channel>>
  /\ UNCHANGED <<kills, deliveredBefore>>

\* fs.writeFile rejects after the open; schedule() catches it.
WriteError(c) ==
  /\ running
  /\ pc[c] = "write"
  /\ Clear(c)
  /\ ev' = Summary(c, "writeError", updates[c])
  /\ UNCHANGED <<source, file, running, channel>>
  /\ UNCHANGED <<kills, deliveredBefore>>

\* SIGINT / SIGTERM: process.exit() at once, whatever is in progress.
Kill ==
  /\ running
  /\ kills < MaxKills
  /\ running' = FALSE
  /\ kills' = kills + 1
  /\ deliveredBefore' = Range(channel)
  /\ pc' = [c \in Slots |-> "idle"]
  /\ trigger' = [c \in Slots |-> "none"]
  /\ data' = [c \in Slots |-> <<>>]
  /\ updates' = [c \in Slots |-> <<>>]
  /\ fetched' = [c \in Slots |-> <<>>]
  /\ prev' = [c \in Slots |-> NoPrev]
  /\ sent' = [c \in Slots |-> <<>>]
  /\ ev' = [NoEv EXCEPT !.op = "kill"]
  /\ UNCHANGED <<source, file, channel>>

\* The process is started again: cron.schedule(..., { runOnInit: true })
\* calls schedule() at once.
Boot ==
  /\ ~running
  /\ running' = TRUE
  /\ pc' = [pc EXCEPT ![1] = "fetch"]
  /\ trigger' = [trigger EXCEPT ![1] = "init"]
  /\ ev' = NoEv
  /\ UNCHANGED <<source, file, data, updates, fetched, prev, sent, channel>>
  /\ UNCHANGED <<kills, deliveredBefore>>

\* ------------------------------------------------------- specifications
\* The program: overlapping invocations, signals, and every I/O failure.
Next ==
  \/ Publish
  \/ CronTick
  \/ Kill
  \/ Boot
  \/ \E c \in Slots : fetchAnimeData(c, TRUE)
  \/ \E c \in Slots : fetchAnimeData(c, FALSE)
  \/ \E c \in Slots : Check(c, TRUE)
  \/ \E c \in Slots : Check(c, FALSE)
  \/ \E c \in Slots : SendOk(c)
  \/ \E c \in Slots : SendFail(c)
  \/ \E c \in Slots : saveAnimeData(c, TRUE)
  \/ \E c \in Slots : saveAnimeData(c, FALSE)
  \/ \E c \in Slots : WriteDone(c)
  \/ \E c \in Slots : WriteError(c)

Spec == Init /\ [][Next]_vars

\* A tick that finds no invocation in progress.
TickIdle == Busy = {} /\ CronTick

\* Sequential cycles of a process that is never terminated, in which only
\* sends fail: the runs of Spec without overlap, signal, or fetch, read or
\* write failure.
NextSeq ==
  \/ Publish
  \/ TickIdle
  \/ \E c \in Slots : fetchAnimeData(c, TRUE)
  \/ \E c \in Slots : Check(c, TRUE)
  \/ \E c \in Slots : SendOk(c)
  \/ \E c \in Slots : SendFail(c)
  \/ \E c \in Slots : saveAnimeData(c, TRUE)
  \/ \E c \in Slots : WriteDone(c)

SpecSeq == Init /\ [][NextSeq]_vars

\* Sequential cycles in which no I/O fails, of a process that can be
\* terminated and started again.
NextRestart ==
  \/ Publish
  \/ TickIdle
  \/ Kill
  \/ Boot
  \/ \E c \in Slots : fetchAnimeData(c, TRUE)
  \/ \E c \in Slots : Check(c, TRUE)
  \/ \E c \in Slots : SendOk(c)
  \/ \E c \in Slots : saveAnimeData(c, TRUE)
  \/ \E c \in Slots : WriteDone(c)

SpecRestart == Init /\ [][NextRestart]_vars

\* Sequential cycles with every I/O failure, of a process that can be
\* terminated and started again: the runs of Spec without overlap.
NextFaults ==
  \/ NextRestart
  \/ \E c \in Slots : fetchAnimeData(c, FALSE)
  \/ \E c \in Slots : Check(c, FALSE)
  \/ \E c \in Slots : SendFail(c)
  \/ \E c \in Slots : saveAnimeData(c, FALSE)
  \/ \E c \in Slots : WriteError(c)

SpecFaults == Init /\ [][NextFaults]_vars

\* Sequential cycles of a process that is never terminated, in which
\* fetches, reads of the snapshot and sends can fail.
NextLive ==
  \/ NextSeq
  \/ \E c \in Slots : fetchAnimeData(c, FALSE)
  \/ \E c \in Slots : Check(c, FALSE)

\* cron keeps ticking, every awaited call returns, and no kind of call fails
\* for ever: a call that is made again and again eventually succeeds.
Fairness ==
  /\ WF_vars(TickIdle)
  /\ \A c \in Slots :
       /\ SF_vars(fetchAnimeData(c, TRUE))
       /\ SF_vars(Check(c, TRUE))
       /\ SF_vars(SendOk(c))
       /\ WF_vars(saveAnimeData(c, TRUE))
       /\ WF_vars(WriteDone(c))

SpecLive == Init /\ [][NextLive]_vars

FairSpec == Init /\ [][NextLive]_vars /\ Fairness

\* The next step of invocation c, whatever the outcome of the call it awaits.
scheduleStep(c) ==
  \/ fetchAnimeData(c, TRUE)
  \/ fetchAnimeData(c, FALSE)
  \/ Check(c, TRUE)
  \/ Check(c, FALSE)
  \/ SendOk(c)
  \/ SendFail(c)
  \/ saveAnimeData(c, TRUE)
  \/ saveAnimeData(c, FALSE)
  \/ WriteDone(c)
  \/ WriteError(c)

\* Sequential cycles of a process that receives no signal, with every I/O
\* failure.
NextCycles ==
  \/ NextLive
  \/ \E c \in Slots : saveAnimeData(c, FALSE)
  \/ \E c \in Slots : WriteError(c)

\* Every awaited call returns or fails: an invocation in progress takes its
\* next step.
FairCycles ==
  Init /\ [][NextCycles]_vars /\ \A c \in Slots : WF_vars(scheduleStep(c))

\* ----------------------------------------------- detection on any input
TimeLabels == {"21:00", "21:30"}

DetectItems == [content : 1..MaxContent, time : TimeLabels]

SeqsUpTo(S, n) == UNION {[1..k -> S] : k \in 0..n}

\* An invocation about to call checkAnimeUpdates, for every fetched list and
\* every state of ./data.json (absent, unparsable, or any list).
InitDetect ==
  /\ source = <<>>
  /\ file \in {NoFile, Truncated} \cup {Json(p) : p \in SeqsUpTo(DetectItems, MaxPrev)}
  /\ running = TRUE
  /\ pc = [c \in Slots |-> IF c = 1 THEN "check" ELSE "idle"]
  /\ trigger = [c \in Slots |-> IF c = 1 THEN "cron" ELSE "none"]
  /\ data \in {[c \in Slots |-> IF c = 1 THEN d ELSE <<>>] : d \in SeqsUpTo(DetectItems, MaxLen)}
  /\ updates = [c \in Slots |-> <<>>]
  /\ fetched = data
  /\ prev = [c \in Slots |-> NoPrev]
  /\ sent = [c \in Slots |-> <<>>]
  /\ channel = <<>>
  /\ kills = 0
  /\ deliveredBefore = {}
  /\ ev = NoEv

NextDetect ==
  \/ \E c \in Slots : Check(c, TRUE)
  \/ \E c \in Slots : Check(c, FALSE)

SpecDetect == InitDetect /\ [][NextDetect]_vars

\* ---------------------------------------------------- saving any input
\* An invocation about to call saveAnimeData(data, unsentUpdates), for every
\* fetched list, every unsent list sendAnimeUpdates can hand back out of it
\* (a leading part), and every state of ./data.json (absent, emptied by an
\* interrupted write, or any list with items).
InitSave ==
  /\ source = <<>>
  /\ file \in {NoFile, Truncated}
              \cup {Json(p) : p \in SeqsUpTo(DetectItems, MaxPrev) \ {<<>>}}
  /\ running = TRUE
  /\ pc = [c \in Slots |-> IF c = 1 THEN "save" ELSE "idle"]
  /\ trigger = [c \in Slots |-> IF c = 1 THEN "cron" ELSE "none"]
  /\ data \in {[c \in Slots |-> IF c = 1 THEN d ELSE <<>>] : d \in SeqsUpTo(DetectItems, MaxLen)}
  /\ updates \in {[c \in Slots |-> IF c = 1 THEN SubSeq(data[1], 1, k) ELSE <<>>] :
                    k \in 0..Len(data[1])}
  /\ fetched = data
  /\ prev = [c \in Slots |-> NoPrev]
  /\ sent = [c \in Slots |-> <<>>]
  /\ channel = <<>>
  /\ kills = 0
  /\ deliveredBefore = {}
  /\ ev = NoEv

NextSave ==
  \/ \E c \in Slots : saveAnimeData(c, TRUE)
  \/ \E c \in Slots : saveAnimeData(c, FALSE)
  \/ \E c \in Slots : WriteDone(c)
  \/ \E c \in Slots : WriteError(c)

SpecSave == InitSave /\ [][NextSave]_vars

\* checkAnimeUpdates has returned to invocation c and nothing was sent yet:
\* updates[c] is its result, data[c] its argument, prev[c] what it read.
Checked(c) == pc[c] \in {"send", "save"} /\ sent[c] = <<>>

Fingerprints(items) == {hash(x) : x \in Range(items)}

\* r is the longest leading run of d with no fingerprint in p.
LeadingRun(r, d, p) ==
  \E n \in 0..Len(d) :
    /\ r = SubSeq(d, 1, n)
    /\ \A i \in 1..n : hash(d[i]) \notin Fingerprints(p)
    /\ n < Len(d) => hash(d[n + 1]) \in Fingerprints(p)

\* C3: with a readable previous snapshot, checkAnimeUpdates returns exactly
\* the longest leading run of the fetched list whose fingerprints are all
\* absent from the snapshot; nothing after the first match is returned.
C3_DetectLeadingRun ==
  \A c \in Slots :
    (Checked(c) /\ prev[c].ok) => LeadingRun(updates[c], data[c], prev[c].items)

\* C3 witness: a check returned a proper prefix although a later item of the
\* fetched list has a fingerprint absent from the snapshot.
C3_Witness ==
  \E c \in Slots :
    /\ Checked(c) /\ prev[c].ok
    /\ updates[c] # <<>>
    /\ \E i \in (Len(updates[c]) + 2)..Len(data[c]) :
         hash(data[c][i]) \notin Fingerprints(prev[c].items)

Without(d, u) == SelectSeq(d, LAMBDA x : x \notin Range(u))

\* The items an invocation was given by checkAnimeUpdates, newest first:
\* what is still unsent, then what it sent (sent oldest first).
Reverse(q) == [i \in 1..Len(q) |-> q[Len(q) + 1 - i]]

\* C1: when a send of a cycle fails (readable snapshot), the cycle ends with
\* the snapshot equal to the fetched list minus the unsent items, the items
\* sent before the failure are in it, and a detection of the same fetched
\* list against it returns exactly the unsent items.
C1_PartialSendReconciled ==
  (ev.end /\ ev.op = "sendFail" /\ ev.prev.ok) =>
    /\ file = Json(Without(ev.fetched, ev.unsent))
    /\ Range(ev.sent) \subseteq Range(JSONparse(file.text))
    /\ checkAnimeUpdates(ev.fetched, file, TRUE) = ev.unsent

\* C2: over sequential cycles in which sends may fail, no item is delivered
\* twice.
C2_NoDuplicateDelivery ==
  \A i, j \in 1..Len(channel) : i < j => hash(channel[i]) # hash(channel[j])

\* C4: when a send fails, sendAnimeUpdates returns to schedule() the failed
\* item and the items not yet attempted (the head of its argument), so
\* schedule() goes on to saveAnimeData with them; when every send succeeds
\* it returns the empty list.
C4_FailReturnsUnsent ==
  /\ ev.op = "sendFail" =>
       /\ pc[ev.c] = "save"
       /\ updates[ev.c] = ev.unsent
       /\ ev.unsent \o Reverse(ev.sent) = detectLoop(ev.fetched, Fingerprints(ev.prev.items))
  /\ \A c \in Slots : pc[c] = "save" /\ sent[c] # <<>> => updates[c] = <<>>

\* C5: the channel is in chronological order: nothing is delivered after a
\* newer item has been delivered.
C5_ChannelChronological ==
  \A i, j \in 1..Len(channel) : i < j => channel[i].content <= channel[j].content

\* C6: at most one invocation of schedule() is in progress at any moment.
C6_NoOverlap == Cardinality(Busy) <= 1

\* C7: after a restart nothing is sent that was delivered before the process
\* was terminated.
C7_NoResendAfterRestart ==
  ev.op = "sendOk" => ev.sent[1] \notin deliveredBefore

Pending(k) ==
  /\ file.kind = "json"
  /\ hash(Episode(k)) \notin Fingerprints(JSONparse(file.text))
  /\ \E c \in Slots : pc[c] = "check" /\ Episode(k) \in Range(data[c])

Delivered(k) == Episode(k) \in Range(channel)

\* C8: once a snapshot exists, an item fetched with a fingerprint absent from
\* it is eventually delivered (or the channel of the model is full).
C8_EventuallyDelivered ==
  \A k \in 1..MaxItems :
    [](Pending(k) => <>(Delivered(k) \/ Len(channel) = MaxChannel))

C12_SecondRunDetectsNothing ==
  ev.end => checkAnimeUpdates(ev.fetched, file, TRUE) = <<>>

\* C12 amended: after a cycle in which no send failed and the snapshot was
\* saved (written, or skipped because the fetched list was empty), a second
\* cycle that fetches the same list detects nothing (and so sends nothing).
C12_SecondRunAfterCleanRun ==
  (ev.end /\ ev.op \in {"written", "skip"}) =>
    checkAnimeUpdates(ev.fetched, file, TRUE) = <<>>

\* C12 witness: a cycle delivered a new item and wrote the snapshot, and the
\* same fetched list holds nothing new against that snapshot.
C12_Witness ==
  /\ ev.end /\ ev.op = "written"
  /\ ev.prev.ok /\ ev.sent # <<>>
  /\ file.kind = "json"
  /\ checkAnimeUpdates(ev.fetched, file, TRUE) = <<>>

\* Invocation c has fetched the empty list (the page listed nothing, or the
\* fetch failed) and has not returned yet.
FetchedNothing(c) ==
  pc[c] \in {"check", "send", "save", "write"} /\ fetched[c] = <<>>

C14_CycleAlwaysEnds ==
  /\ [](running)
  /\ [](ev.end => pc[ev.c] = "idle")
  /\ [](Busy = {} => ENABLED TickIdle)
  /\ \A c \in Slots : (pc[c] # "idle") ~> (pc[c] = "idle")

\* C14 witness: a cycle ended by a failed write after it had delivered, the
\* process runs and no invocation is in progress.
C14_Witness ==
  /\ ev.end /\ ev.op = "writeError"
  /\ ev.sent # <<>>
  /\ running /\ Busy = {}

\* C15: when the process is killed, also in the middle of the write of
\* saveAnimeData, ./data.json holds a complete snapshot (the old one or the
\* new one; no file at all when there was none), never an emptied or partly
\* written one, so that the check of the next run does not find it
\* unparsable.
C15_KillLeavesCompleteSnapshot ==
  /\ ev.op = "kill" => file.kind # "corrupt"
  /\ \A c \in Slots : pc[c] = "check" => file.kind # "corrupt"

\* saveAnimeData(data, []) has returned without an error: it wrote, or it
\* skipped the write.
Saved == ev.end /\ ev.op \in {"written", "skip"} /\ ev.unsent = <<>>

\* C16 as stated: for every item list, after saveAnimeData of the list the
\* load of ./data.json (read and parse, as checkAnimeUpdates does) returns
\* the same items in the same order.
C16_RoundTripAnyList ==
  Saved => readPrevData(file, TRUE) = [ok |-> TRUE, items |-> ev.fetched]

\* C16 amended: the same for every list with one item or more; saving the
\* empty list writes nothing.
C16_RoundTripNonEmpty ==
  (Saved /\ ev.fetched # <<>>) =>
    /\ ev.op = "written"
    /\ readPrevData(file, TRUE) = [ok |-> TRUE, items |-> ev.fetched]

\* C16 witness: a list of three items, two of them equal and two differing
\* only in one field, was written and is loaded back as it was.
C16_Witness ==
  /\ Saved /\ ev.op = "written"
  /\ Len(ev.fetched) = 3
  /\ ev.fetched[1] = ev.fetched[3]
  /\ ev.fetched[1].content = ev.fetched[2].content
  /\ ev.fetched[1].time # ev.fetched[2].time
  /\ readPrevData(file, TRUE).items = ev.fetched

\* C17: a snapshot written by saveAnimeData holds at least one item, and
\* when every fetched item is handed to it as unsent it writes nothing and
\* leaves ./data.json as it was.
C17_SnapshotNeverEmpty ==
  /\ [](file.kind = "json" => Len(JSONparse(file.text)) >= 1)
  /\ [][\A c \in Slots :
          (pc[c] = "save" /\ data[c] # <<>> /\ updates[c] = data[c]) =>
            (file' = file /\ pc'[c] = "idle" /\ ev'.op = "skip")]_vars

\* C17 witness: saveAnimeData was given two fetched items, both unsent,
\* and returned without writing; the earlier snapshot is in place.
C17_Witness ==
  /\ ev.end /\ ev.op = "skip"
  /\ Len(ev.fetched) >= 2
  /\ ev.unsent = ev.fetched
  /\ file.kind = "json" /\ file.text # <<>>

\* C18: within a cycle the sends go out one after another in the reverse of
\* the detected list: at every moment the items sent so far (all with
\* success, oldest first) are the tail of the detected list and the items
\* not yet sent are its head, and the channel received them in that order.
C18_SendsOldestFirst ==
  \A c \in Slots :
    pc[c] \in {"send", "save"} =>
      /\ prev[c].ok =>
           LeadingRun(updates[c] \o Reverse(sent[c]), fetched[c], prev[c].items)
      /\ ~prev[c].ok => (updates[c] = <<>> /\ sent[c] = <<>>)
      /\ Len(sent[c]) <= Len(channel)
      /\ SubSeq(channel, Len(channel) - Len(sent[c]) + 1, Len(channel)) = sent[c]

\* C18 witness: of three detected items the two oldest have been sent, the
\* older one first, and the newest is still to be sent.
C18_Witness ==
  \E c \in Slots :
    /\ pc[c] = "send"
    /\ Len(sent[c]) = 2 /\ Len(updates[c]) = 1
    /\ sent[c][1].content < sent[c][2].content
    /\ sent[c][2].content < updates[c][1].content

C20_NoSpuriousSend ==
  /\ ev.op = "sendOk" =>
       /\ ev.prev.ok
       /\ ev.sent[1] \in Range(fetched[ev.c])
       /\ hash(ev.sent[1]) \notin Fingerprints(ev.prev.items)
  /\ \A c \in Slots : \A x \in Range(sent[c]) :
       /\ x \in Range(fetched[c])
       /\ hash(x) \notin Fingerprints(prev[c].items)

\* C20 witness: a cycle whose fetched list holds an item of the snapshot it
\* read has just sent another item of that list.
C20_Witness ==
  /\ ev.op = "sendOk"
  /\ ev.prev.ok /\ ev.prev.items # <<>>
  /\ \E x \in Range(fetched[ev.c]) : hash(x) \in Fingerprints(ev.prev.items)
  /\ hash(ev.sent[1]) \notin Fingerprints(ev.prev.items)

\* Invocation c could not read the existing snapshot, and episode k, which
\* it fetched, has no fingerprint in that snapshot: k is new in this cycle.
Missed(c, k) ==
  /\ pc[c] = "save" /\ ~prev[c].ok
  /\ file.kind = "json"
  /\ Episode(k) \in Range(fetched[c])
  /\ hash(Episode(k)) \notin Fingerprints(JSONparse(file.text))

\* Episode k is in no list of detected items and is not being sent.
Undetected(k) ==
  /\ \A c \in Slots : Episode(k) \notin Range(updates[c])
  /\ ~(ev.op = "sendOk" /\ ev.sent[1] = Episode(k))

====
